---- MODULE Spec2Model ----
(***************************************************************************)
(* Connection lifecycle and event-to-state synchronisation of              *)
(* src/src/socket.js (socketStop, socketStart, getTimerAndUpdateState).    *)
(*                                                                         *)
(* The module-level variable `socket` references a Transport Handle (a     *)
(* socket.io-client Socket with its Manager).  Handles are numbered in the *)
(* order io() constructs them.  The handlers registered by socketStart are *)
(* the actions On...; which signal a handle can deliver in which transport *)
(* state is the behaviour of the socket.io-client library configured at    *)
(* lines 60-70 and is kept in the guards of those actions.                  *)
(*                                                                         *)
(* Every state records in `last` the operation that produced it together   *)
(* with the statuses it forwarded to the status sink, the requests it      *)
(* issued through instance.apiClient.send and the State Store mutators it  *)
(* called, in program order.                                               *)
(***************************************************************************)
EXTENDS Integers, Sequences, FiniteSets, Bags, TLC

\* ------------------------------------------------------------------ bounds
MaxStarts == 2      \* accepted start() calls (Transport Handles constructed)
MaxRuns   == 2      \* 'connect' signals handled (bootstrap runs started)
MaxEvents == 2      \* push events delivered by the service
MaxLog    == 3      \* steps kept in sigLog / emitLog

\* --------------------------------------------------------- program constants
reconnectionAttempts == 5

NULL  == "null"
UNDEF == "undefined"
LocalClose == "io client disconnect"

\* Reasons socket.io gives a 'disconnect' that the client did not ask for.
\* After "io server disconnect" the library does not reconnect.
RemoteReasons == {"transport close", "io server disconnect"}

TimerIds  == {"T1", "T2"}
\* timer_id of a payload: the id of a timer, or null when none is selected.
TimerIdValues == TimerIds \cup {NULL}
\* JavaScript's !v on the values a timer_id can take.
Falsy(v) == v \in {NULL, "", UNDEF}

Handles == 1..MaxStarts

VARIABLES
  socket,     \* module-level `socket`: 0 is null, else the handle it references
  conn,       \* conn[h]: transport state of handle h
  attempts,   \* attempts[h]: the manager's backoff.attempts of handle h
  status,     \* the status last forwarded to instance.updateStatus
  last,       \* the operation that produced this state and its effects
  sigLog,     \* the lifecycle signals of the last MaxLog steps that had any
  emitLog,    \* emitLog[i]: the statuses forwarded by the step of sigLog[i]
  runs,       \* bootstrap runs, one per handled 'connect' signal
  treqs,      \* bag of the get_timer requests in flight (getTimerAndUpdateState)
  nEvents,    \* push events delivered so far
  room,       \* State Store: room fields
  playback,   \* State Store: playback fields
  timer,      \* State Store: timer fields
  message,    \* State Store: message fields
  flashing    \* State Store: last value given to updateFlashingState

vars == <<socket, conn, attempts, status, last, sigLog, emitLog, runs, treqs,
          nEvents, room, playback, timer, message, flashing>>

storeVars == <<room, playback, timer, message, flashing>>
transportVars == <<socket, conn, attempts>>

\* A handle is live from its construction by io() until it is torn down.
Live(h) == conn[h] \in {"opening", "connected", "waiting", "reopening", "handshake", "failed"}

\* `of` names what a step is about: the handle of a call or signal, the
\* bootstrap run or the get_timer request of an answer, 0 for a push event.
NoStep == [op |-> "init", of |-> 0, sigs |-> <<>>, emits |-> <<>>, sends |-> <<>>,
           applies |-> <<>>, steps |-> <<>>]

Init ==
  /\ socket = 0
  /\ conn = [h \in Handles |-> "none"]
  /\ attempts = [h \in Handles |-> 0]
  /\ status = "None"
  /\ last = NoStep
  /\ sigLog = <<>>
  /\ emitLog = <<>>
  /\ runs = <<>>
  /\ treqs = EmptyBag
  /\ nEvents = 0
  /\ room = [roomId |-> UNDEF, roomName |-> UNDEF, roomBlackout |-> UNDEF, roomFocus |-> UNDEF]
  /\ playback = [currentTimerId |-> UNDEF, isRunning |-> UNDEF, kickoff |-> UNDEF,
                 deadline |-> UNDEF, lastStop |-> UNDEF]
  /\ timer = [name |-> UNDEF, speaker |-> UNDEF, notes |-> UNDEF, duration |-> UNDEF,
              wrap_up_yellow |-> UNDEF, wrap_up_red |-> UNDEF]
  /\ message = [showing |-> UNDEF, text |-> UNDEF, color |-> UNDEF, bold |-> UNDEF,
                uppercase |-> UNDEF]
  /\ flashing = UNDEF

\* One effect of a handler: a call of instance.updateStatus, of a State Store
\* mutator ("update"), of instance.apiClient.send ("send"), or of the transport
\* (socket.disconnect(), io(), socket.connect()).
Step(do, what) == [do |-> do, what |-> what]

\* The effects of one kind among `steps`, in their order.
Whats(steps, do) ==
  LET sel == SelectSeq(steps, LAMBDA s : s.do = do)
  IN [i \in 1..Len(sel) |-> sel[i].what]

\* A handler that forwards statuses, then calls mutators, then sends requests.
StepsOf(emits, applies, sends) ==
  [i \in 1..Len(emits) |-> Step("updateStatus", emits[i])]
    \o [i \in 1..Len(applies) |-> Step("update", applies[i])]
    \o [i \in 1..Len(sends) |-> Step("send", sends[i].kind)]

\* What a step leaves behind: its record in `last` and the status
\* instance.updateStatus was last given.
Did(op, x, sigs, emits, sends, applies) ==
  /\ last' = [op |-> op, of |-> x, sigs |-> sigs, emits |-> emits, sends |-> sends,
              applies |-> applies, steps |-> StepsOf(emits, applies, sends)]
  /\ status' = IF emits = <<>> THEN status ELSE emits[Len(emits)]

\* The same for a handler whose effects are given in program order.
DidInOrder(op, x, sigs, steps) ==
  LET emits == Whats(steps, "updateStatus")
      kinds == Whats(steps, "send")
  IN /\ last' = [op |-> op, of |-> x, sigs |-> sigs, emits |-> emits,
                 sends |-> [i \in 1..Len(kinds) |-> [kind |-> kinds[i], timer_id |-> UNDEF]],
                 applies |-> Whats(steps, "update"), steps |-> steps]
     /\ status' = IF emits = <<>> THEN status ELSE emits[Len(emits)]

\* Callbacks run to completion on the event loop: a socket signal, a push event
\* or a call of start()/stop() is a task of its own and runs only when no promise
\* continuation (the second .then of a get_status chain) is queued.
Idle == \A r \in 1..Len(runs) : runs[r].stat # "then2"

\* --------------------------------------------------------------- socketStop

\* Faulty variant: the handler without its check of the reason.
DisconnectEmitsAlways(reason) == <<"Disconnected">>

\* The 'disconnect' handler (lines 125-129): the statuses it forwards.
DisconnectEmits(reason) ==
  IF reason = LocalClose THEN <<>> ELSE <<"Disconnected">>

\* Faulty variant: a socket.disconnect() that signals whenever it is called.
StopSignalsAlways ==
  IF socket # 0 THEN <<"disconnect_local">> ELSE <<>>

\* socket.disconnect() (line 35) fires 'disconnect' with the local reason,
\* synchronously, when the socket is connected, and delivers nothing otherwise.
StopSignals ==
  IF socket # 0 /\ conn[socket] = "connected" THEN <<"disconnect_local">> ELSE <<>>

StopEmits ==
  IF socket # 0 /\ conn[socket] = "connected" THEN DisconnectEmits(LocalClose) ELSE <<>>

\* Faulty variant: socketStop() that leaves the referenced handle as it is.
socketStopKeeps == conn

\* The effects of socketStop() in program order (lines 34-36): the call of
\* socket.disconnect() when `socket` is set, and what the 'disconnect' handler
\* forwards when that call fires it.
StopSteps ==
  (IF socket # 0 THEN <<Step("disconnect", "socket")>> ELSE <<>>)
    \o [i \in 1..Len(StopEmits) |-> Step("updateStatus", StopEmits[i])]

\* The transport states socketStop() leaves: the referenced handle is torn down
\* (socket.disconnect() releases the socket and closes its manager); `socket`
\* keeps referencing it.
socketStop ==
  IF socket # 0
  THEN [conn EXCEPT ![socket] = IF Live(socket) THEN "closed" ELSE @]
  ELSE conn

StopCall ==
  /\ Idle
  /\ conn' = socketStop
  /\ DidInOrder("stop", socket, StopSignals, StopSteps)
  /\ UNCHANGED <<socket, attempts, runs, treqs, nEvents, storeVars>>

\* -------------------------------------------------------------- socketStart

\* What the caller hands to socketStart: no instance, an instance without
\* config, a config whose apiUrl new URL() rejects, or a usable one.
StartArgs == {"no_instance", "no_config", "bad_url", "ok"}

\* Faulty variant: a precondition that looks at the instance only.
StartThrowsNoInstance(arg) == arg \in {"no_instance", "bad_url"}

\* Lines 47-52: the precondition and the URL parse throw before anything else.
StartThrows(arg) == arg # "ok"

Constructed == Cardinality({h \in Handles : conn[h] # "none"})

\* The effects of an accepted socketStart in program order: socketStop() (line
\* 54), updateStatus(Connecting) (line 57), io() (lines 60-70) and
\* socket.connect() (line 213).
StartSteps ==
  StopSteps \o <<Step("updateStatus", "Connecting"), Step("io", "socket"),
                 Step("connect", "socket")>>

StartCall(arg) ==
  /\ Idle
  /\ IF StartThrows(arg)
     THEN /\ Did("start_throw", 0, <<>>, <<>>, <<>>, <<>>)
          /\ UNCHANGED <<transportVars, runs, treqs, nEvents, storeVars>>
     ELSE /\ Constructed < MaxStarts
          /\ LET h == Constructed + 1
             IN /\ conn' = [socketStop EXCEPT ![h] = "opening"]
                /\ socket' = h
                /\ DidInOrder("start", h, StopSignals \o <<"start">>, StartSteps)
          /\ UNCHANGED <<attempts, runs, treqs, nEvents, storeVars>>

\* ------------------------------------------------- socket and manager signals

\* A signal that only forwards a status: transport state c, attempts a.
StatusSignal(op, h, c, a, emits) ==
  /\ Idle
  /\ conn' = [conn EXCEPT ![h] = c]
  /\ attempts' = [attempts EXCEPT ![h] = a]
  /\ Did(op, h, <<op>>, emits, <<>>, <<>>)
  /\ UNCHANGED <<socket, runs, treqs, nEvents, storeVars>>

\* Faulty variant: a 'connect_error' handler that forwards nothing.
OnConnectErrorSilent(h, cause) ==
  /\ \/ cause = "engine" /\ conn[h] \in {"opening", "reopening"}
     \/ cause = "server" /\ conn[h] \in {"opening", "handshake"}
  /\ StatusSignal("connect_error", h, IF cause = "engine" THEN "waiting" ELSE "dead",
                  attempts[h], <<>>)

\* 'connect_error' (lines 120-123).  An engine that fails to open leaves the
\* manager to its retry schedule; a server that refuses the handshake ends the
\* socket.
OnConnectError(h, cause) ==
  /\ \/ cause = "engine" /\ conn[h] \in {"opening", "reopening"}
     \/ cause = "server" /\ conn[h] \in {"opening", "handshake"}
  /\ StatusSignal("connect_error", h, IF cause = "engine" THEN "waiting" ELSE "dead",
                  attempts[h], <<"ConnectionFailure">>)

\* 'disconnect' with a reason other than the local close (lines 125-129).
OnDisconnect(h, reason) ==
  /\ reason \in RemoteReasons
  /\ \/ conn[h] = "connected"
     \/ conn[h] = "handshake" /\ reason = "transport close"
  /\ StatusSignal("disconnect", h,
                  IF reason = "transport close" THEN "waiting" ELSE "dead",
                  attempts[h], DisconnectEmits(reason))

\* Faulty variant: the 'error' handler forwarding nothing.
OnErrorSilent(h) ==
  /\ conn[h] = "connected"
  /\ StatusSignal("error", h, conn[h], attempts[h], <<>>)

\* socket 'error' (lines 131-134).
OnError(h) ==
  /\ conn[h] = "connected"
  /\ StatusSignal("error", h, conn[h], attempts[h], <<"UnknownError">>)

\* Faulty variant: a manager that does not count its attempts.
OnReconnectAttemptUncounted(h) ==
  /\ conn[h] = "waiting"
  /\ attempts[h] < reconnectionAttempts
  /\ StatusSignal("reconnect_attempt", h, "reopening", attempts[h], <<"Connecting">>)

\* manager 'reconnect_attempt' (lines 140-143): the manager retries while fewer
\* than reconnectionAttempts attempts were made (line 67).
OnReconnectAttempt(h) ==
  /\ conn[h] = "waiting"
  /\ attempts[h] < reconnectionAttempts
  /\ StatusSignal("reconnect_attempt", h, "reopening", attempts[h] + 1, <<"Connecting">>)

\* manager 'reconnect' (lines 145-148): the engine is open again; the socket's
\* own 'connect' follows once the server accepts the handshake.
OnReconnect(h) ==
  /\ conn[h] = "reopening"
  /\ StatusSignal("reconnect", h, "handshake", 0, <<"Ok">>)

\* Faulty variant: 'reconnect_failed' reported as a dropped connection.
OnReconnectFailedAsDisconnect(h) ==
  /\ conn[h] = "waiting"
  /\ attempts[h] >= reconnectionAttempts
  /\ StatusSignal("reconnect_failed", h, "failed", 0, <<"Disconnected">>)

\* manager 'reconnect_failed' (lines 150-153): all attempts are used up.
OnReconnectFailed(h) ==
  /\ conn[h] = "waiting"
  /\ attempts[h] >= reconnectionAttempts
  /\ StatusSignal("reconnect_failed", h, "failed", 0, <<"ConnectionFailure">>)

\* manager 'error' (lines 155-157): logged at debug level, nothing else.
OnManagerError(h) ==
  /\ conn[h] \in {"opening", "reopening"}
  /\ StatusSignal("manager_error", h, conn[h], attempts[h], <<>>)

\* ------------------------------------------------------ bootstrap (76-118)

Req(kind, tid) == [kind |-> kind, timer_id |-> tid]

\* 'connect' (lines 76-118): Ok, then get_room and get_status are sent one
\* after the other without waiting; the run records both promise chains.
NewRun(h) ==
  [h |-> h, room |-> "inflight", stat |-> "inflight", tid |-> UNDEF,
   roomUpd |-> 0, playUpd |-> 0, timerReqs |-> 0,
   pushedRoom |-> FALSE, pushedPlay |-> FALSE]

\* The requests the 'connect' handler sends (lines 80 and 96).
BootstrapSends == <<Req("get_room", UNDEF), Req("get_status", UNDEF)>>

\* Faulty variant: a handler that bootstraps on the first connection only.
OnConnectOnce(h) ==
  /\ Idle
  /\ conn[h] \in {"opening", "handshake"}
  /\ Len(runs) < MaxRuns
  /\ conn' = [conn EXCEPT ![h] = "connected"]
  /\ runs' = IF runs = <<>> THEN Append(runs, NewRun(h)) ELSE runs
  /\ Did("connect", h, <<"connect">>, <<"Ok">>,
         IF runs = <<>> THEN BootstrapSends ELSE <<>>, <<>>)
  /\ UNCHANGED <<socket, attempts, treqs, nEvents, storeVars>>

\* Faulty variant: a handler that sends get_room and forgets get_status.
OnConnectRoomOnly(h) ==
  /\ Idle
  /\ conn[h] \in {"opening", "handshake"}
  /\ Len(runs) < MaxRuns
  /\ conn' = [conn EXCEPT ![h] = "connected"]
  /\ runs' = Append(runs, [NewRun(h) EXCEPT !.stat = "rejected"])
  /\ Did("connect", h, <<"connect">>, <<"Ok">>, <<Req("get_room", UNDEF)>>, <<>>)
  /\ UNCHANGED <<socket, attempts, treqs, nEvents, storeVars>>

\* Faulty variant: a handler that reports Ok once both requests are sent.
OnConnectStepsLate ==
  <<Step("send", "get_room"), Step("send", "get_status"), Step("updateStatus", "Ok")>>

\* The effects of the 'connect' handler in program order: updateStatus(Ok)
\* (line 78), then the get_room (line 80) and get_status (line 96) requests.
OnConnectSteps ==
  <<Step("updateStatus", "Ok"), Step("send", "get_room"), Step("send", "get_status")>>

OnConnect(h) ==
  /\ Idle
  /\ conn[h] \in {"opening", "handshake"}
  /\ Len(runs) < MaxRuns
  /\ conn' = [conn EXCEPT ![h] = "connected"]
  /\ runs' = Append(runs, NewRun(h))
  /\ DidInOrder("connect", h, <<"connect">>, OnConnectSteps)
  /\ UNCHANGED <<socket, attempts, treqs, nEvents, storeVars>>

\* Responses of the service.  The snapshot of a request reflects the room as
\* it was when the service answered.
RoomData ==
  [_id |-> "R1", name |-> "Room 1", blackout |-> FALSE, focus_message |-> "focus0"]

StatusData == [t \in TimerIdValues |->
  [timer_id |-> t, running |-> FALSE, start |-> "start0", finish |-> "finish0",
   pause |-> "pause0"]]

TimerData == [t \in TimerIdValues |->
  [name |-> "name:" \o t, speaker |-> "speaker:" \o t, notes |-> "notes:" \o t,
   duration |-> "duration:" \o t, wrap_up_yellow |-> "yellow:" \o t,
   wrap_up_red |-> "red:" \o t]]

\* The State Store mutators merge the fields they are given.
RoomSnapshot(data) ==
  [roomId |-> data._id, roomName |-> data.name, roomBlackout |-> data.blackout,
   roomFocus |-> data.focus_message]

PlaybackSnapshot(data) ==
  [currentTimerId |-> data.timer_id, isRunning |-> data.running,
   kickoff |-> data.start, deadline |-> data.finish, lastStop |-> data.pause]

TimerSnapshot(data) ==
  [name |-> data.name, speaker |-> data.speaker, notes |-> data.notes,
   duration |-> data.duration, wrap_up_yellow |-> data.wrap_up_yellow,
   wrap_up_red |-> data.wrap_up_red]

\* Faulty variant: a get_room chain that updates the store on a rejection too.
RoomAppliesAlways(ok) == <<"room">>

\* The State Store mutators the get_room chain calls once the request has
\* settled (lines 81-94): .then applies the RoomSnapshot, .catch only logs.
RoomApplies(ok) == IF ok THEN <<"room">> ELSE <<>>

RoomResponse(r, ok) ==
  /\ r \in 1..Len(runs)
  /\ runs[r].room = "inflight"
  /\ LET applies == RoomApplies(ok) IN
     /\ room' = IF applies # <<>> THEN RoomSnapshot(RoomData) ELSE room
     /\ runs' = [runs EXCEPT ![r].room = IF ok THEN "resolved" ELSE "rejected",
                             ![r].roomUpd = @ + Len(applies)]
     /\ Did(IF ok THEN "get_room_resolved" ELSE "get_room_rejected", r,
            <<>>, <<>>, <<>>, applies)
  /\ UNCHANGED <<transportVars, treqs, nEvents, playback, timer, message, flashing>>

\* Faulty variant: a get_status chain that waits for get_room to have resolved.
StatusAppliesAfterRoom(r, ok) ==
  IF ok /\ runs[r].room = "resolved" THEN <<"playback">> ELSE <<>>

\* The mutators the get_status chain calls once the request has settled (lines
\* 97-110, 115-117): the first .then applies the PlaybackSnapshot whatever
\* became of get_room; a rejection skips both .then and is logged.
StatusApplies(r, ok) == IF ok THEN <<"playback">> ELSE <<>>

StatusResponse(r, ok, t) ==
  /\ r \in 1..Len(runs)
  /\ runs[r].stat = "inflight"
  /\ LET applies == StatusApplies(r, ok) IN
     /\ playback' = IF applies # <<>> THEN PlaybackSnapshot(StatusData[t]) ELSE playback
     /\ runs' = [runs EXCEPT ![r].stat = IF ok THEN "then2" ELSE "rejected",
                             ![r].tid = IF ok THEN t ELSE UNDEF,
                             ![r].playUpd = @ + Len(applies)]
     /\ Did(IF ok THEN "get_status_resolved" ELSE "get_status_rejected", r,
            <<>>, <<>>, <<>>, applies)
  /\ UNCHANGED <<transportVars, treqs, nEvents, room, timer, message, flashing>>

\* Faulty variant: a request keyed by an id fixed beforehand.
NewTimerReqFixed(t, r) == [tid |-> "T1", run |-> r]

\* getTimerAndUpdateState (lines 221-223): the request it sends.  It is known
\* here by its id and the bootstrap run it belongs to (0: a push event's).
NewTimerReq(t, r) == [tid |-> t, run |-> r]

\* Faulty variant: the second .then without its check of timer_id.
ThenSendsAlways(t) == <<Req("get_timer", t)>>

\* The second .then of the get_status chain (lines 111-114): the requests it
\* sends for the timer_id the first .then returned.
ThenSends(t) == IF Falsy(t) THEN <<>> ELSE <<Req("get_timer", t)>>

StatusThen(r) ==
  /\ r \in 1..Len(runs)
  /\ runs[r].stat = "then2"
  /\ LET sends == ThenSends(runs[r].tid) IN
     /\ runs' = [runs EXCEPT ![r].stat = "resolved", ![r].timerReqs = @ + Len(sends)]
     /\ treqs' = IF sends = <<>> THEN treqs
                 ELSE treqs (+) [x \in {NewTimerReq(runs[r].tid, r)} |-> Len(sends)]
     /\ Did("status_then", r, <<>>, <<>>, sends, <<>>)
  /\ UNCHANGED <<transportVars, nEvents, storeVars>>

\* Faulty variant: a response applied only when it is for the current timer.
TimerAfterFenced(req) ==
  IF req.tid = playback.currentTimerId THEN TimerSnapshot(TimerData[req.tid]) ELSE timer

\* What a settled get_timer leaves in the store (lines 224-239): the
\* TimerSnapshot of the id the request was sent for; there is no check against
\* the current currentTimerId.
TimerAfter(req) == TimerSnapshot(TimerData[req.tid])

TimerResponse(req, ok) ==
  /\ BagIn(req, treqs)
  /\ treqs' = treqs (-) SetToBag({req})
  /\ IF ok
     THEN /\ timer' = TimerAfter(req)
          /\ Did("get_timer_resolved", req, <<>>, <<>>, <<>>, <<"timer">>)
     ELSE /\ timer' = timer
          /\ Did("get_timer_rejected", req, <<>>, <<>>, <<>>, <<>>)
  /\ UNCHANGED <<transportVars, runs, nEvents, room, playback, message, flashing>>

\* ------------------------------------------------- push events (163-210)

\* The handles whose subscriptions a push event of the service reaches.
Receivers == {h \in Handles : conn[h] = "connected"}

\* Each receiving handle runs its own handler.
Times(n, x) == [i \in 1..n |-> x]

\* The bootstrap run of the connection handle h is in.
RunOf(h) == CHOOSE r \in 1..Len(runs) :
              runs[r].h = h /\ \A q \in 1..Len(runs) : runs[q].h = h => q <= r

PushData == [t \in TimerIdValues |->
  [timer_id |-> t, running |-> TRUE, start |-> "start1", finish |-> "finish1",
   pause |-> NULL]]

PushGuard ==
  /\ Idle
  /\ Receivers # {}
  /\ nEvents < MaxEvents
  /\ nEvents' = nEvents + 1

\* Faulty variant: a handler that applies the snapshot and fetches nothing.
OnPlaybackStatusNoFetch(t) ==
  /\ PushGuard
  /\ playback' = PlaybackSnapshot(PushData[t])
  /\ runs' = [r \in 1..Len(runs) |->
               IF runs[r].h \in Receivers /\ r = RunOf(runs[r].h)
               THEN [runs[r] EXCEPT !.pushedPlay = TRUE] ELSE runs[r]]
  /\ Did("playback_status", 0, <<>>, <<>>, <<>>, Times(Cardinality(Receivers), "playback"))
  /\ UNCHANGED <<transportVars, treqs, room, timer, message, flashing>>

\* 'playback_status' (lines 163-177).
OnPlaybackStatus(t) ==
  /\ PushGuard
  /\ LET n == Cardinality(Receivers) IN
     /\ playback' = PlaybackSnapshot(PushData[t])
     /\ treqs' = treqs (+) [x \in {NewTimerReq(t, 0)} |-> n]
     /\ runs' = [r \in 1..Len(runs) |->
                  IF runs[r].h \in Receivers /\ r = RunOf(runs[r].h)
                  THEN [runs[r] EXCEPT !.pushedPlay = TRUE] ELSE runs[r]]
     /\ Did("playback_status", 0, <<>>, <<>>, Times(n, Req("get_timer", t)),
            Times(n, "playback"))
  /\ UNCHANGED <<transportVars, room, timer, message, flashing>>

\* The State Store's updateRoomState: the fields it is given replace those of
\* the store, the others stay.
updateRoomState(partial) ==
  [f \in DOMAIN room |-> IF f \in DOMAIN partial THEN partial[f] ELSE room[f]]

\* Faulty variant: a handler that hands over a whole RoomSnapshot.
RoomEventFieldsAll(b) ==
  [roomId |-> UNDEF, roomName |-> UNDEF, roomBlackout |-> b, roomFocus |-> "focus1"]

\* The fields the 'room' handler hands to updateRoomState (lines 182-187).
RoomEventFields(b) == [roomBlackout |-> b, roomFocus |-> "focus1"]

\* 'room' (lines 179-188).
OnRoom(b) ==
  /\ PushGuard
  /\ LET n == Cardinality(Receivers) IN
     /\ room' = updateRoomState(RoomEventFields(b))
     /\ runs' = [r \in 1..Len(runs) |->
                  IF runs[r].h \in Receivers /\ r = RunOf(runs[r].h)
                  THEN [runs[r] EXCEPT !.pushedRoom = TRUE] ELSE runs[r]]
     /\ Did("room", 0, <<>>, <<>>, <<>>, Times(n, "room"))
  /\ UNCHANGED <<transportVars, treqs, playback, timer, message, flashing>>

\* 'message' (lines 190-202).
OnMessage(showing) ==
  /\ PushGuard
  /\ message' = [showing |-> showing, text |-> "text1", color |-> "red",
                 bold |-> FALSE, uppercase |-> FALSE]
  /\ Did("message", 0, <<>>, <<>>, <<>>, Times(Cardinality(Receivers), "message"))
  /\ UNCHANGED <<transportVars, runs, treqs, room, playback, timer, flashing>>

\* 'flash' (lines 204-210).
OnFlash(count) ==
  /\ PushGuard
  /\ flashing' = count
  /\ Did("flash", 0, <<>>, <<>>, <<>>, Times(Cardinality(Receivers), "flash"))
  /\ UNCHANGED <<transportVars, runs, treqs, room, playback, timer, message>>

\* ------------------------------------------------------------ specification

Stop == StopCall
Start == \E arg \in StartArgs : StartCall(arg)
Connect == \E h \in Handles : OnConnect(h)
ConnectError == \E h \in Handles, cause \in {"engine", "server"} : OnConnectError(h, cause)
Disconnect == \E h \in Handles, reason \in RemoteReasons : OnDisconnect(h, reason)
SocketError == \E h \in Handles : OnError(h)
ReconnectAttempt == \E h \in Handles : OnReconnectAttempt(h)
Reconnect == \E h \in Handles : OnReconnect(h)
ReconnectFailed == \E h \in Handles : OnReconnectFailed(h)
ManagerError == \E h \in Handles : OnManagerError(h)
GetRoomSettles == \E r \in 1..MaxRuns, ok \in BOOLEAN : RoomResponse(r, ok)
GetStatusSettles == \E r \in 1..MaxRuns, ok \in BOOLEAN, t \in TimerIdValues :
                      (~ok => t = NULL) /\ StatusResponse(r, ok, t)
GetStatusThen == \E r \in 1..MaxRuns : StatusThen(r)
GetTimerSettles == \E req \in BagToSet(treqs), ok \in BOOLEAN : TimerResponse(req, ok)
PlaybackStatusEvent == \E t \in TimerIdValues : OnPlaybackStatus(t)
RoomEvent == \E b \in {TRUE} : OnRoom(b)
MessageEvent == \E showing \in {TRUE} : OnMessage(showing)
FlashEvent == \E count \in {3} : OnFlash(count)

\* The log is an observer of `last`: it keeps, of the last MaxLog steps that
\* received a lifecycle signal or forwarded a status, the signals and the
\* statuses.
LastN(q, n) == IF Len(q) <= n THEN q ELSE SubSeq(q, Len(q) - n + 1, Len(q))

Observe ==
  IF last'.sigs = <<>> /\ last'.emits = <<>>
  THEN UNCHANGED <<sigLog, emitLog>>
  ELSE /\ sigLog' = LastN(Append(sigLog, last'.sigs), MaxLog)
       /\ emitLog' = LastN(Append(emitLog, last'.emits), MaxLog)

NoLog == UNCHANGED <<sigLog, emitLog>>

\* The connection lifecycle: the calls of the host and the signals of the
\* transport, observed by the log; the API client's answers are still to come.
Next ==
  \/ Stop /\ Observe
  \/ Start /\ Observe
  \/ Connect /\ Observe
  \/ ConnectError /\ Observe
  \/ Disconnect /\ Observe
  \/ SocketError /\ Observe
  \/ ReconnectAttempt /\ Observe
  \/ Reconnect /\ Observe
  \/ ReconnectFailed /\ Observe
  \/ ManagerError /\ Observe

Spec == Init /\ [][Next]_vars

\* Synchronisation: from the state an accepted start() leaves, the handle
\* connects, the API client answers and the service pushes events while the
\* connection stays, drops or is stopped.
InitSync ==
  /\ socket = 1
  /\ conn = [h \in Handles |-> IF h = 1 THEN "opening" ELSE "none"]
  /\ attempts = [h \in Handles |-> 0]
  /\ status = "Connecting"
  /\ last = [op |-> "start", of |-> 1, sigs |-> <<"start">>, emits |-> <<"Connecting">>,
             sends |-> <<>>, applies |-> <<>>,
             steps |-> <<Step("updateStatus", "Connecting"), Step("io", "socket"),
                         Step("connect", "socket")>>]
  /\ sigLog = << <<"start">> >>
  /\ emitLog = << <<"Connecting">> >>
  /\ runs = <<>>
  /\ treqs = EmptyBag
  /\ nEvents = 0
  /\ room = [roomId |-> UNDEF, roomName |-> UNDEF, roomBlackout |-> UNDEF, roomFocus |-> UNDEF]
  /\ playback = [currentTimerId |-> UNDEF, isRunning |-> UNDEF, kickoff |-> UNDEF,
                 deadline |-> UNDEF, lastStop |-> UNDEF]
  /\ timer = [name |-> UNDEF, speaker |-> UNDEF, notes |-> UNDEF, duration |-> UNDEF,
              wrap_up_yellow |-> UNDEF, wrap_up_red |-> UNDEF]
  /\ message = [showing |-> UNDEF, text |-> UNDEF, color |-> UNDEF, bold |-> UNDEF,
                uppercase |-> UNDEF]
  /\ flashing = UNDEF

NextSync ==
  \/ Stop /\ NoLog
  \/ Connect /\ NoLog
  \/ Disconnect /\ NoLog
  \/ GetRoomSettles /\ NoLog
  \/ GetStatusSettles /\ NoLog
  \/ GetStatusThen /\ NoLog
  \/ GetTimerSettles /\ NoLog
  \/ PlaybackStatusEvent /\ NoLog
  \/ RoomEvent /\ NoLog
  \/ MessageEvent /\ NoLog
  \/ FlashEvent /\ NoLog

SpecSync == InitSync /\ [][NextSync]_vars

\* Delivery: the calls of the host, a transport that connects and drops, and
\* the push events of the service, which reach every connected handle.
NextPush ==
  \/ Stop /\ NoLog
  \/ Start /\ NoLog
  \/ Connect /\ NoLog
  \/ Disconnect /\ NoLog
  \/ ReconnectAttempt /\ NoLog
  \/ Reconnect /\ NoLog
  \/ PlaybackStatusEvent /\ NoLog
  \/ RoomEvent /\ NoLog
  \/ MessageEvent /\ NoLog
  \/ FlashEvent /\ NoLog

SpecPush == Init /\ [][NextPush]_vars

\* Retry: from the state an accepted start() leaves, with no further call of
\* the host, the transport acts and the get_room requests are answered.  Every
\* attempt to open the transport ends (it is accepted or it fails), and the
\* manager's retry timer, whose delay is capped (line 69), fires.
NextRetry ==
  \/ Connect /\ NoLog
  \/ ConnectError /\ NoLog
  \/ Disconnect /\ NoLog
  \/ SocketError /\ NoLog
  \/ ReconnectAttempt /\ NoLog
  \/ Reconnect /\ NoLog
  \/ ReconnectFailed /\ NoLog
  \/ ManagerError /\ NoLog
  \/ GetRoomSettles /\ NoLog

AttemptEnds == (Connect \/ ConnectError \/ Reconnect) /\ NoLog
RetryTimer == (ReconnectAttempt \/ ReconnectFailed) /\ NoLog

SpecRetry ==
  InitSync /\ [][NextRetry]_vars /\ WF_vars(AttemptEnds) /\ WF_vars(RetryTimer)

\* ------------------------------------------------------------------ claims

Range(q) == {q[i] : i \in 1..Len(q)}
Count(q, x) == Cardinality({i \in 1..Len(q) : q[i] = x})

RECURSIVE Flatten(_)
Flatten(qs) == IF qs = <<>> THEN <<>> ELSE Head(qs) \o Flatten(Tail(qs))

\* The transition table of the connection status: the statuses a signal is to
\* forward.  A local disconnect and a manager error forward none.
TableStatus(sig) ==
  CASE sig = "start"             -> <<"Connecting">>
    [] sig = "connect"           -> <<"Ok">>
    [] sig = "connect_error"     -> <<"ConnectionFailure">>
    [] sig = "disconnect"        -> <<"Disconnected">>
    [] sig = "error"             -> <<"UnknownError">>
    [] sig = "reconnect_attempt" -> <<"Connecting">>
    [] sig = "reconnect"         -> <<"Ok">>
    [] sig = "reconnect_failed"  -> <<"ConnectionFailure">>
    [] OTHER                     -> <<>>

RECURSIVE TableImage(_)
TableImage(sigs) ==
  IF sigs = <<>> THEN <<>> ELSE TableStatus(Head(sigs)) \o TableImage(Tail(sigs))

\* C1: the statuses forwarded to the status sink are exactly the image of the
\* signals received under the transition table: this holds of every step, and
\* so of the sequence of the last MaxLog steps that the log keeps.
C1_StatusesAreTableImage ==
  /\ last.emits = TableImage(last.sigs)
  /\ Flatten(emitLog) = TableImage(Flatten(sigLog))
  /\ Len(emitLog) = Len(sigLog)

C1_Witness ==
  /\ Flatten(sigLog) = <<"reconnect_attempt", "connect_error", "reconnect_failed">>
  /\ Flatten(emitLog) = <<"Connecting", "ConnectionFailure", "ConnectionFailure">>

\* C2: a 'disconnect' with the local reason forwards no status; stop() forwards
\* none and leaves the current status as it was; and start(), 'connect',
\* disconnect("io client disconnect") forwards exactly Connecting, Ok.
C2_LocalDisconnectSuppressed ==
  [][ /\ "disconnect_local" \in Range(last'.sigs)
           => "Disconnected" \notin Range(last'.emits)
      /\ last'.op = "stop" => last'.emits = <<>> /\ status' = status
      /\ Flatten(sigLog') = <<"start", "connect", "disconnect_local">>
           => Flatten(emitLog') = <<"Connecting", "Ok">> /\ status' = "Ok"
    ]_vars

C2_Witness ==
  /\ last.op = "stop"
  /\ last.sigs = <<"disconnect_local">>
  /\ Flatten(sigLog) = <<"start", "connect", "disconnect_local">>

\* C3: at most one handle is live, and it is the one `socket` references; so a
\* push event reaches one subscription set and causes exactly one State Store
\* update of its kind (and a playback_status one get_timer request).
PushOps == {"playback_status", "room", "message", "flash"}
UpdateOf(op) == IF op = "playback_status" THEN "playback" ELSE op

C3_OneLiveHandle ==
  /\ Cardinality({h \in Handles : Live(h)}) <= 1
  /\ \A h \in Handles : Live(h) => h = socket
  /\ last.op \in PushOps => last.applies = <<UpdateOf(last.op)>>
  /\ last.op = "playback_status" => Len(last.sends) = 1

C3_Witness ==
  /\ last.op \in PushOps
  /\ conn[1] = "closed"
  /\ conn[2] = "connected"
  /\ Len(runs) = 2

\* C4: every 'connect' signal issues exactly one get_room and one get_status,
\* nothing else issues them, and the handle that connects is the current one:
\* a handle torn down by a second start() starts no bootstrap run.
C4_OneBootstrapPerConnect ==
  /\ Count(last.sends, Req("get_room", UNDEF)) = Count(last.sigs, "connect")
  /\ Count(last.sends, Req("get_status", UNDEF)) = Count(last.sigs, "connect")
  /\ last.op = "connect" => last.of = socket /\ conn[socket] = "connected"
  /\ \A r \in 1..Len(runs) : conn[runs[r].h] \notin {"none", "opening"}

C4_Witness ==
  /\ last.op = "connect"
  /\ last.of = 2
  /\ conn[1] = "closed"
  /\ Len(runs) = 1

\* C5 as stated: handling the manager's 'reconnect' forwards Ok and runs the
\* bootstrap again.
C5_ReconnectRunsBootstrap ==
  last.op = "reconnect" =>
    /\ last.emits = <<"Ok">>
    /\ Count(last.sends, Req("get_room", UNDEF)) = 1
    /\ Count(last.sends, Req("get_status", UNDEF)) = 1

\* C5, amended: 'reconnect' forwards Ok and sends nothing, the handle then
\* waiting for the server to accept it; the 'connect' signal that follows a
\* 'reconnect' starts a new bootstrap run with a new get_room and get_status.
C5_ConnectAfterReconnectReseeds ==
  /\ last.op = "reconnect" =>
       last.emits = <<"Ok">> /\ last.sends = <<>> /\ conn[last.of] = "handshake"
  /\ ( /\ last.op = "connect"
       /\ Len(sigLog) >= 2
       /\ sigLog[Len(sigLog) - 1] = <<"reconnect">> )
       => /\ sigLog[Len(sigLog)] = <<"connect">>
          /\ last.sends = BootstrapSends
          /\ runs # <<>>
          /\ runs[Len(runs)] = NewRun(last.of)

C5_Witness ==
  /\ last.op = "connect"
  /\ Len(sigLog) >= 2
  /\ sigLog[Len(sigLog) - 1] = <<"reconnect">>
  /\ Len(runs) = 2
  /\ runs[1].h = runs[2].h

\* C8: 'reconnect_failed' comes after reconnectionAttempts attempts and leaves
\* ConnectionFailure; from then on, and after a stop(), no signal is received
\* and the status does not change until start() is called again.
Exhausted == socket # 0 /\ conn[socket] = "failed"

C8_ExhaustedIsTerminal ==
  [][ /\ last'.op = "reconnect_failed"
           => /\ status' = "ConnectionFailure"
              /\ last'.of = socket
              /\ attempts[socket] = reconnectionAttempts
              /\ Exhausted'
      /\ Exhausted => status = "ConnectionFailure"
      /\ (socket # 0 /\ conn[socket] \in {"failed", "closed"} /\ last'.op # "start")
           => /\ status' = status
              /\ last'.sigs = <<>>
              /\ last'.emits = <<>>
              /\ conn'[socket] \in {"failed", "closed"}
    ]_vars

C8_Witness ==
  /\ Exhausted
  /\ last.op = "start_throw"

\* C6 as stated: a bootstrap get_room or get_status response of a connection
\* is never applied after a room or playback update that a push event made on
\* that same connection.
C6_BootstrapBeforePush ==
  /\ last.op = "get_status_resolved" => ~runs[last.of].pushedPlay
  /\ last.op = "get_room_resolved" => ~runs[last.of].pushedRoom

\* C7: a get_timer request in flight is removed by nothing but its own
\* response (no call, signal or event cancels it), and a response that
\* resolves applies the TimerSnapshot of the id the request was sent for,
\* whatever the current currentTimerId is.
TimerOps == {"get_timer_resolved", "get_timer_rejected"}

C7_StaleTimerResponseApplied ==
  [][ /\ last'.op = "get_timer_resolved"
           => /\ last'.applies = <<"timer">>
              /\ BagIn(last'.of, treqs)
              /\ timer' = TimerSnapshot(TimerData[last'.of.tid])
      /\ last'.op \notin TimerOps
           => \A x \in BagToSet(treqs) : CopiesIn(x, treqs') >= CopiesIn(x, treqs)
    ]_vars

C7_Witness ==
  /\ last.op = "get_timer_resolved"
  /\ last.of.tid = "T1"
  /\ playback.currentTimerId = "T2"
  /\ timer = TimerSnapshot(TimerData["T1"])
  /\ conn[1] = "closed"

\* C9: in a bootstrap run a resolved get_status applies the PlaybackSnapshot
\* and sends nothing by itself; the step after it sends no get_timer when the
\* timer_id is falsy and exactly one, for that timer_id, when it is an id; no
\* get_timer of the run is sent before the PlaybackSnapshot was applied.
RunTimerReqs(r) ==
  IF runs[r].stat = "resolved" /\ runs[r].tid \in TimerIds THEN 1 ELSE 0

C9_TimerFetchFollowsStatus ==
  /\ \A r \in 1..Len(runs) :
       /\ runs[r].stat \in {"then2", "resolved"} => runs[r].playUpd = 1
       /\ runs[r].timerReqs = RunTimerReqs(r)
       /\ \A t \in TimerIdValues :
            CopiesIn(NewTimerReq(t, r), treqs)
              <= IF t = runs[r].tid THEN RunTimerReqs(r) ELSE 0
  /\ last.op = "get_status_resolved"
       => /\ last.applies = <<"playback">>
          /\ last.sends = <<>>
          /\ playback = PlaybackSnapshot(StatusData[runs[last.of].tid])
  /\ last.op = "status_then"
       => /\ last.applies = <<>>
          /\ runs[last.of].playUpd = 1
          /\ last.sends = IF runs[last.of].tid \in TimerIds
                          THEN <<Req("get_timer", runs[last.of].tid)>>
                          ELSE <<>>

C9_Witness ==
  /\ last.op = "status_then"
  /\ runs[1].tid = "T1"
  /\ runs[1].timerReqs = 1
  /\ BagIn(NewTimerReq("T1", 1), treqs)

\* C10: 'connect' sends get_room and get_status together, neither waiting for
\* the other; in every run updateRoomState is called once if get_room resolved
\* and never otherwise, and updatePlaybackState once if get_status resolved and
\* never otherwise, whatever became of the other request.
C10_RootFetchesIndependent ==
  /\ last.op = "connect"
       => /\ last.sends = BootstrapSends
          /\ runs[Len(runs)].room = "inflight"
          /\ runs[Len(runs)].stat = "inflight"
  /\ \A r \in 1..Len(runs) :
       /\ runs[r].roomUpd = IF runs[r].room = "resolved" THEN 1 ELSE 0
       /\ runs[r].playUpd = IF runs[r].stat \in {"then2", "resolved"} THEN 1 ELSE 0

C10_Witness ==
  /\ runs # <<>>
  /\ runs[1].room = "rejected"
  /\ runs[1].stat = "resolved"
  /\ runs[1].roomUpd = 0
  /\ runs[1].playUpd = 1
  /\ last.op = "status_then"

\* C11: a 'playback_status' event applies its PlaybackSnapshot and sends one
\* get_timer for the timer_id of its payload; when that request rejects, the
\* store, the status, the handles and the requests of others stay as they
\* were, and push events are received afterwards as before.
PushReady == Idle /\ Receivers # {} /\ nEvents < MaxEvents

C11_TimerFetchFailureContained ==
  [][ /\ last'.op = "playback_status"
           => /\ last'.applies = <<"playback">>
              /\ playback' = PlaybackSnapshot(PushData[playback'.currentTimerId])
              /\ last'.sends = <<Req("get_timer", playback'.currentTimerId)>>
              /\ CopiesIn(NewTimerReq(playback'.currentTimerId, 0), treqs')
                   = CopiesIn(NewTimerReq(playback'.currentTimerId, 0), treqs) + 1
      /\ last'.op = "get_timer_rejected"
           => /\ last'.applies = <<>> /\ last'.emits = <<>> /\ last'.sends = <<>>
              /\ UNCHANGED <<status, transportVars, storeVars, runs, nEvents>>
              /\ treqs' = treqs (-) SetToBag({last'.of})
              /\ PushReady' <=> PushReady
    ]_vars

C11_Witness ==
  /\ last.op = "playback_status"
  /\ nEvents = 2
  /\ playback.currentTimerId = "T2"
  /\ treqs = SetToBag({NewTimerReq("T2", 0)})
  /\ timer.name = UNDEF
  /\ runs # <<>> /\ runs[1].stat = "rejected"

\* C12: a rejected get_room, get_status or get_timer forwards no status,
\* changes neither the status nor a handle nor the store, and sends nothing; a
\* run whose get_status rejected stays so, with no PlaybackSnapshot applied and
\* no get_timer sent for it.
RejectedOps == {"get_room_rejected", "get_status_rejected", "get_timer_rejected"}

C12_FetchFailureIsolated ==
  [][ /\ last'.op \in RejectedOps
           => /\ last'.emits = <<>> /\ last'.sigs = <<>>
              /\ last'.sends = <<>> /\ last'.applies = <<>>
              /\ UNCHANGED <<status, transportVars, storeVars, nEvents>>
              /\ \A x \in BagToSet(treqs') : BagIn(x, treqs)
      /\ last'.op = "get_status_rejected"
           => /\ runs'[last'.of].stat = "rejected"
              /\ runs[last'.of].stat = "inflight"
      /\ last'.op = "get_room_rejected"
           => /\ runs'[last'.of].room = "rejected"
              /\ runs[last'.of].room = "inflight"
      /\ \A r \in 1..Len(runs) :
           /\ runs[r].stat = "rejected"
                => /\ runs'[r].stat = "rejected"
                   /\ runs'[r].playUpd = 0
                   /\ runs'[r].timerReqs = 0
                   /\ \A t \in TimerIdValues : ~BagIn(NewTimerReq(t, r), treqs')
           /\ runs[r].room = "rejected"
                => runs'[r].room = "rejected" /\ runs'[r].roomUpd = 0
    ]_vars

C12_Witness ==
  /\ last.op = "get_status_rejected"
  /\ status = "Ok"
  /\ conn[1] = "connected"
  /\ runs[1].room = "rejected"
  /\ room.roomId = UNDEF
  /\ playback.currentTimerId = UNDEF

\* C13: the 'room' handler hands updateRoomState the fields roomBlackout and
\* roomFocus only, so roomId and roomName are what the last resolved get_room
\* made them (or still unset), however room events and bootstrap answers
\* interleave.
C13_RoomEventKeepsIdentity ==
  [][ /\ last'.op = "room"
           => /\ room'.roomId = room.roomId
              /\ room'.roomName = room.roomName
              /\ room'.roomBlackout = TRUE
              /\ room'.roomFocus = "focus1"
      /\ \A b \in BOOLEAN : DOMAIN RoomEventFields(b) = {"roomBlackout", "roomFocus"}
      /\ LET seeded == \E r \in 1..Len(runs') : runs'[r].room = "resolved"
         IN /\ room'.roomId = IF seeded THEN RoomData._id ELSE UNDEF
            /\ room'.roomName = IF seeded THEN RoomData.name ELSE UNDEF
    ]_vars

C13_Witness ==
  /\ last.op = "room"
  /\ room = [roomId |-> "R1", roomName |-> "Room 1", roomBlackout |-> TRUE,
             roomFocus |-> "focus1"]

\* C14: stop() before any start() touches no transport and changes nothing;
\* stop() on a handle already torn down delivers no signal and changes
\* nothing; and no stop() forwards a status or leaves a live handle.
C14_StopIdempotent ==
  [][ last'.op = "stop"
        => /\ last'.emits = <<>>
           /\ UNCHANGED <<socket, attempts, status, runs, treqs, nEvents, storeVars>>
           /\ \A h \in Handles : h # socket => conn'[h] = conn[h]
           /\ socket = 0 => conn' = conn /\ last'.steps = <<>> /\ last'.sigs = <<>>
           /\ socket # 0 => ~Live(socket)'
           /\ (socket # 0 /\ conn[socket] = "closed")
                => conn' = conn /\ last'.sigs = <<>>
    ]_vars

C14_Witness ==
  /\ last.op = "stop"
  /\ last.sigs = <<>>
  /\ socket # 0
  /\ conn[socket] = "closed"
  /\ Flatten(sigLog) = <<"start", "connect", "disconnect_local">>

\* C15: socketStart without an instance or without a configuration throws
\* before anything else: no status, no new handle, and the handle of an
\* earlier start stays as it was.
C15_StartPreconditionThrows ==
  [][ /\ \A arg \in {"no_instance", "no_config"} :
           /\ StartThrows(arg)
           /\ StartCall(arg) => last'.op = "start_throw"
      /\ last'.op = "start_throw"
           => /\ last'.emits = <<>> /\ last'.sigs = <<>> /\ last'.steps = <<>>
              /\ UNCHANGED <<socket, conn, attempts, status, runs, treqs, nEvents,
                             storeVars>>
    ]_vars

C15_Witness ==
  /\ last.op = "start_throw"
  /\ socket = 1
  /\ conn[1] = "connected"
  /\ status = "Ok"

\* C16: socketStart forwards Connecting after the call that tears the previous
\* handle down and before io() and connect(); the 'connect' handler forwards
\* Ok before it sends get_room and get_status.
Positions(steps, do, what) == {i \in 1..Len(steps) : steps[i] = Step(do, what)}

Before(I, J) == \A i \in I, j \in J : i < j

C16_StatusBeforeAction ==
  /\ last.op = "start"
       => LET at(do, what) == Positions(last.steps, do, what)
          IN /\ Cardinality(at("updateStatus", "Connecting")) = 1
             /\ Cardinality(at("io", "socket")) = 1
             /\ Cardinality(at("connect", "socket")) = 1
             /\ Before(at("disconnect", "socket"), at("updateStatus", "Connecting"))
             /\ Before(at("updateStatus", "Connecting"), at("io", "socket"))
             /\ Before(at("io", "socket"), at("connect", "socket"))
             /\ last.of > 1 => at("disconnect", "socket") # {}
  /\ last.op = "connect"
       => LET at(do, what) == Positions(last.steps, do, what)
          IN /\ Cardinality(at("updateStatus", "Ok")) = 1
             /\ Cardinality(at("send", "get_room")) = 1
             /\ Cardinality(at("send", "get_status")) = 1
             /\ Before(at("updateStatus", "Ok"), at("send", "get_room"))
             /\ Before(at("send", "get_room"), at("send", "get_status"))

C16_Witness ==
  /\ last.op = "connect"
  /\ last.of = 2
  /\ Len(sigLog) >= 2
  /\ sigLog[Len(sigLog) - 1] = <<"disconnect_local", "start">>
  /\ sigLog[Len(sigLog)] = <<"connect">>

\* C17: a get_timer request is sent for the timer_id of a PlaybackSnapshot that
\* was applied before: a push event's in the same handler, after its update; a
\* bootstrap run's after the get_status answer of that run was applied.  The
\* TimerSnapshot applied is the one of the id of a request that was in flight.
C17_TimerFetchKeyedByAppliedId ==
  [][ /\ \A x \in BagToSet(treqs') :
           CopiesIn(x, treqs') > CopiesIn(x, treqs)
             => IF x.run = 0
                THEN /\ last'.op = "playback_status"
                     /\ playback'.currentTimerId = x.tid
                     /\ last'.steps = <<Step("update", "playback"), Step("send", "get_timer")>>
                     /\ last'.sends = <<Req("get_timer", x.tid)>>
                ELSE /\ last'.op = "status_then"
                     /\ last'.of = x.run
                     /\ runs[x.run].stat = "then2"
                     /\ runs[x.run].playUpd = 1
                     /\ runs[x.run].tid = x.tid
                     /\ last'.sends = <<Req("get_timer", x.tid)>>
      /\ last'.op = "get_status_resolved"
           => /\ runs'[last'.of].stat = "then2"
              /\ playback'.currentTimerId = runs'[last'.of].tid
      /\ last'.op = "get_timer_resolved"
           => /\ BagIn(last'.of, treqs)
              /\ timer' = TimerSnapshot(TimerData[last'.of.tid])
    ]_vars

C17_Witness ==
  /\ last.op = "get_timer_resolved"
  /\ last.of = NewTimerReq("T2", 1)
  /\ timer = TimerSnapshot(TimerData["T2"])
  /\ playback.currentTimerId = "T1"
  /\ BagIn(NewTimerReq("T1", 0), treqs)

\* C18 as stated: no get_timer request is sent with a null or absent timer id,
\* neither by a bootstrap run nor by the 'playback_status' handler.
C18_NoTimerFetchForNull ==
  /\ \A x \in BagToSet(treqs) : ~Falsy(x.tid)
  /\ \A i \in 1..Len(last.sends) :
       last.sends[i].kind = "get_timer" => ~Falsy(last.sends[i].timer_id)

\* C19 as stated: whenever the status last forwarded is Ok, the current handle
\* is connected.
C19_OkMeansConnected ==
  status = "Ok" => socket # 0 /\ conn[socket] = "connected"

\* C19, amended: whenever the status last forwarded is Ok, the current handle
\* is connected, or has reopened its transport and waits for the server to
\* accept it, or was torn down by stop() (which forwards nothing); a signal
\* that ends the connection from outside never leaves Ok behind.
C19_OkMeansNotEndedRemotely ==
  /\ status = "Ok" => socket # 0 /\ conn[socket] \in {"connected", "handshake", "closed"}
  /\ last.op \in {"disconnect", "connect_error", "reconnect_failed"} => status # "Ok"
  /\ (status = "Ok" /\ conn[socket] = "closed") => last.op \in {"stop", "start_throw"}

C19_Witness ==
  /\ status = "Ok"
  /\ last.op = "stop"
  /\ conn[socket] = "closed"
  /\ sigLog # <<>>
  /\ sigLog[Len(sigLog)] = <<"reconnect">>

\* C20: with no further call of the host, when every attempt ends and the retry
\* timer fires, Connecting does not last: the status becomes Ok or
\* ConnectionFailure, and in the end it is Ok or the handle has given up
\* (after reconnectionAttempts attempts, or refused by the server) with
\* ConnectionFailure.
GivenUp == conn[socket] \in {"failed", "dead"} /\ status = "ConnectionFailure"

C20_ConnectingEnds ==
  /\ (status = "Connecting") ~> (status \in {"Ok", "ConnectionFailure"})
  /\ <>(status = "Ok" \/ GivenUp)
  /\ [](attempts[socket] <= reconnectionAttempts)

C20_Witness ==
  /\ last.op = "reconnect_failed"
  /\ conn[socket] = "failed"
  /\ status = "ConnectionFailure"
  /\ runs = <<>>

====
